---------------------------- MODULE Spec2Model ----------------------------
(***************************************************************************)
(* Semantic Protocol v2 (src/semantic-protocol-v2.py): the rule registry,  *)
(* the scorer/resolver inside SemanticProtocolV2.analyze and the facade    *)
(* operations built on it.                                                 *)
(*                                                                         *)
(* Python strings are sequences of one-character strings, Python dicts     *)
(* with insertion order are sequences of entries, and a Python value is a  *)
(* tagged record [t |-> "str" | "int" | "bool" | "none", v |-> ...].       *)
(***************************************************************************)
EXTENDS Integers, Sequences, FiniteSets, TLC

(***************************************************************************)
(* Strings                                                                 *)
(***************************************************************************)
UpperChars == <<"A","B","C","D","E","F","G","H","I","J","K","L","M",
                "N","O","P","Q","R","S","T","U","V","W","X","Y","Z">>

LowerChars == <<"a","b","c","d","e","f","g","h","i","j","k","l","m",
                "n","o","p","q","r","s","t","u","v","w","x","y","z">>

DigitChars == <<"0","1","2","3","4","5","6","7","8","9">>

Range(s) == {s[i] : i \in DOMAIN s}

IsUpper(c) == c \in Range(UpperChars)

IsDigit(c) == c \in Range(DigitChars)

\* str.lower(), one character
LowerChar(c) ==
    IF IsUpper(c)
    THEN LowerChars[CHOOSE i \in DOMAIN UpperChars : UpperChars[i] = c]
    ELSE c

\* str.lower()
Lower(s) == [i \in DOMAIN s |-> LowerChar(s[i])]

\* sub in s
Contains(s, sub) ==
    \E i \in 0..(Len(s) - Len(sub)) : SubSeq(s, i + 1, i + Len(sub)) = sub

\* s.startswith(pre)
StartsWith(s, pre) == Len(pre) <= Len(s) /\ SubSeq(s, 1, Len(pre)) = pre

\* s.endswith(suf)
EndsWith(s, suf) ==
    Len(suf) <= Len(s) /\ SubSeq(s, Len(s) - Len(suf) + 1, Len(s)) = suf

\* any(x in s for x in subs)
AnyIn(s, subs) == \E x \in subs : Contains(s, x)

\* every character of s[a..b] satisfies the class (a set of characters)
AllIn(s, a, b, class) == \A i \in a..b : s[i] \in class

\* str(n) for a natural number n
RECURSIVE NatStr(_)
NatStr(n) ==
    IF n < 10 THEN <<DigitChars[n + 1]>>
    ELSE NatStr(n \div 10) \o <<DigitChars[(n % 10) + 1]>>

(***************************************************************************)
(* Values and fields                                                       *)
(***************************************************************************)
None == [t |-> "none"]

StrVal(s) == [t |-> "str", v |-> s]

IntVal(n) == [t |-> "int", v |-> n]

BoolVal(b) == [t |-> "bool", v |-> b]

\* isinstance(value, str)
IsStr(val) == val.t = "str"

\* isinstance(value, bool)
IsBool(val) == val.t = "bool"

\* isinstance(value, (int, float)): bool is a subclass of int
IsNumber(val) == val.t \in {"int", "bool"}

\* the number a numeric value compares as (True == 1, False == 0)
NumOf(val) == IF val.t = "bool" THEN (IF val.v THEN 1 ELSE 0) ELSE val.v

\* str(value)
Str(val) ==
    CASE val.t = "str" -> val.v
      [] val.t = "none" -> <<"N","o","n","e">>
      [] val.t = "bool" -> IF val.v THEN <<"T","r","u","e">>
                                    ELSE <<"F","a","l","s","e">>
      [] val.t = "int" -> IF val.v < 0 THEN <<"-">> \o NatStr(-val.v)
                                       ELSE NatStr(val.v)

\* field.get(key): None when the key is absent
Get(field, key) == IF key \in DOMAIN field THEN field[key] ELSE None

\* field.get(key, ''): the empty string when the key is absent
GetOr(field, key) == IF key \in DOMAIN field THEN field[key] ELSE StrVal(<<>>)

\* str(field.get('field_name', '')).lower()
NameOf(field) == Lower(Str(GetOr(field, "field_name")))

\* str(field.get('field_value', ''))
ValueStr(field) == Str(GetOr(field, "field_value"))


(***************************************************************************)
(* Builtin detectors: the _detect_ methods of SemanticProtocolV2.  Each    *)
(* returns a confidence; none of them raises.                              *)
(***************************************************************************)
Min(a, b) == IF a <= b THEN a ELSE b

\* the bonus a Python "if cond: confidence += n" adds
Bonus(cond, n) == IF cond THEN n ELSE 0

IdentifierWords ==
    {<<"i","d">>, <<"u","u","i","d">>, <<"g","u","i","d">>, <<"k","e","y">>,
     <<"c","o","d","e">>, <<"s","k","u">>}

\* Common ID lengths
IdLengths == {8, 16, 32, 36}

detect_identifier(field) ==
    LET name == NameOf(field)
        value == Get(field, "field_value")
    IN Min(Bonus(AnyIn(name, IdentifierWords), 70)
           + Bonus(Contains(name, <<"_","i","d">>) \/ EndsWith(name, <<"i","d">>), 20)
           + Bonus(IsStr(value) /\ Len(Str(value)) \in IdLengths, 10),
           95)

TemporalWords ==
    {<<"d","a","t","e">>, <<"t","i","m","e">>,
     <<"t","i","m","e","s","t","a","m","p">>, <<"c","r","e","a","t","e","d">>,
     <<"u","p","d","a","t","e","d">>, <<"e","x","p","i","r","e","d">>,
     <<"d","e","a","d","l","i","n","e">>, <<"s","c","h","e","d","u","l","e">>,
     <<"w","h","e","n">>, <<"y","e","a","r">>, <<"m","o","n","t","h">>,
     <<"d","a","y">>, <<"h","o","u","r">>, <<"m","i","n","u","t","e">>}

TemporalSuffixes ==
    {<<"_","a","t">>, <<"_","o","n">>}

\* re.match(r'\d{4}-\d{2}-\d{2}', s): a match at the start of s
MatchIsoDate(s) ==
    /\ Len(s) >= 10
    /\ AllIn(s, 1, 4, Range(DigitChars))
    /\ s[5] = "-"
    /\ AllIn(s, 6, 7, Range(DigitChars))
    /\ s[8] = "-"
    /\ AllIn(s, 9, 10, Range(DigitChars))

detect_temporal(field) ==
    LET name == NameOf(field)
        value == Get(field, "field_value")
    IN Min(Bonus(AnyIn(name, TemporalWords), 60)
           + Bonus(AnyIn(name, TemporalSuffixes), 30)
           + Bonus(IsStr(value) /\ MatchIsoDate(Str(value)), 20),
           95)

EmailWords ==
    {<<"e","m","a","i","l">>, <<"e","-","m","a","i","l">>, <<"m","a","i","l">>}

\* [a-zA-Z0-9._%+-]
EmailLocalClass ==
    Range(UpperChars) \cup Range(LowerChars) \cup Range(DigitChars)
        \cup {".", "_", "%", "+", "-"}

\* [a-zA-Z0-9.-]
HostClass ==
    Range(UpperChars) \cup Range(LowerChars) \cup Range(DigitChars) \cup {".", "-"}

LetterClass == Range(UpperChars) \cup Range(LowerChars)

\* re.match(r'^[a-zA-Z0-9._%+-]+@[a-zA-Z0-9.-]+\.[a-zA-Z]{2,}$', s)
MatchEmail(s) ==
    \E at \in 2..Len(s) : \E dot \in (at + 2)..(Len(s) - 2) :
        /\ s[at] = "@"
        /\ AllIn(s, 1, at - 1, EmailLocalClass)
        /\ AllIn(s, at + 1, dot - 1, HostClass)
        /\ s[dot] = "."
        /\ AllIn(s, dot + 1, Len(s), LetterClass)

detect_email(field) ==
    LET name == NameOf(field)
        value == ValueStr(field)
    IN Min(Bonus(AnyIn(name, EmailWords), 70) + Bonus(MatchEmail(value), 30), 95)

UrlWords ==
    {<<"u","r","l">>, <<"l","i","n","k">>, <<"w","e","b","s","i","t","e">>,
     <<"s","i","t","e">>, <<"h","r","e","f">>}

UrlPrefixes ==
    {<<"h","t","t","p",":","/","/">>, <<"h","t","t","p","s",":","/","/">>,
     <<"w","w","w",".">>}

\* re.match(r'^[a-zA-Z0-9.-]+\.[a-zA-Z]{2,}', s): a match at the start of s
MatchHost(s) ==
    \E dot \in 2..(Len(s) - 2) :
        /\ AllIn(s, 1, dot - 1, HostClass)
        /\ s[dot] = "."
        /\ AllIn(s, dot + 1, dot + 2, LetterClass)

detect_url(field) ==
    LET name == NameOf(field)
        value == ValueStr(field)
    IN Min(Bonus(AnyIn(name, UrlWords), 60)
           + (IF \E p \in UrlPrefixes : StartsWith(value, p) THEN 40
              ELSE IF MatchHost(value) THEN 20
              ELSE 0),
           95)

PhoneWords ==
    {<<"p","h","o","n","e">>, <<"m","o","b","i","l","e">>, <<"c","e","l","l">>,
     <<"t","e","l">>, <<"f","a","x">>}

\* the characters of [\s\-\(\)\+\.]
PhoneSeparators == {" ", "-", "(", ")", "+", "."}

\* re.sub(r'[\s\-\(\)\+\.]', '', s)
RECURSIVE StripSeparators(_)
StripSeparators(s) ==
    IF s = <<>> THEN <<>>
    ELSE IF Head(s) \in PhoneSeparators THEN StripSeparators(Tail(s))
    ELSE <<Head(s)>> \o StripSeparators(Tail(s))

\* str.isdigit(): non-empty and all digits
IsDigitStr(s) == Len(s) > 0 /\ AllIn(s, 1, Len(s), Range(DigitChars))

detect_phone(field) ==
    LET name == NameOf(field)
        value == ValueStr(field)
        cleaned == StripSeparators(value)
    IN Min(Bonus(AnyIn(name, PhoneWords), 70)
           + Bonus(IsDigitStr(cleaned) /\ 7 <= Len(cleaned) /\ Len(cleaned) <= 15, 30),
           95)

CurrencyWords ==
    {<<"p","r","i","c","e">>, <<"c","o","s","t">>, <<"a","m","o","u","n","t">>,
     <<"f","e","e">>, <<"c","h","a","r","g","e">>,
     <<"p","a","y","m","e","n","t">>, <<"b","a","l","a","n","c","e">>,
     <<"t","o","t","a","l">>, <<"s","u","b","t","o","t","a","l">>,
     <<"t","a","x">>, <<"d","i","s","c","o","u","n","t">>,
     <<"r","e","v","e","n","u","e">>, <<"p","r","o","f","i","t">>,
     <<"s","a","l","a","r","y">>, <<"w","a","g","e">>,
     <<"b","u","d","g","e","t">>}

CurrencyCodes ==
    {<<"u","s","d">>, <<"e","u","r">>, <<"g","b","p">>}

detect_currency(field) ==
    LET name == NameOf(field)
        value == Get(field, "field_value")
    IN Min(Bonus(AnyIn(name, CurrencyWords), 70)
           + Bonus(IsNumber(value) /\ NumOf(value) > 0, 20)
           + Bonus(Contains(Str(value), <<"$">>) \/ AnyIn(name, CurrencyCodes), 10),
           95)

PercentageWords ==
    {<<"p","e","r","c","e","n","t">>, <<"r","a","t","e">>,
     <<"r","a","t","i","o">>, <<"c","o","v","e","r","a","g","e">>,
     <<"u","t","i","l","i","z","a","t","i","o","n">>}

detect_percentage(field) ==
    LET name == NameOf(field)
        value == Get(field, "field_value")
    IN Min(Bonus(AnyIn(name, PercentageWords), 60)
           + Bonus(IsNumber(value) /\ 0 <= NumOf(value) /\ NumOf(value) <= 100, 30)
           + Bonus(Contains(Str(value), <<"%">>), 10),
           90)

StatusWords ==
    {<<"s","t","a","t","u","s">>, <<"s","t","a","t","e">>,
     <<"p","h","a","s","e">>, <<"s","t","a","g","e">>}

StatusValues ==
    {<<"a","c","t","i","v","e">>, <<"i","n","a","c","t","i","v","e">>,
     <<"p","e","n","d","i","n","g">>, <<"c","o","m","p","l","e","t","e","d">>,
     <<"f","a","i","l","e","d">>, <<"s","u","c","c","e","s","s">>,
     <<"e","r","r","o","r">>, <<"w","a","r","n","i","n","g">>,
     <<"a","p","p","r","o","v","e","d">>, <<"r","e","j","e","c","t","e","d">>,
     <<"d","r","a","f","t">>, <<"p","u","b","l","i","s","h","e","d">>,
     <<"a","r","c","h","i","v","e","d">>}

detect_status(field) ==
    LET name == NameOf(field)
        value == Lower(ValueStr(field))
    IN Min(Bonus(AnyIn(name, StatusWords), 70) + Bonus(value \in StatusValues, 25), 95)

BooleanPrefixes ==
    {<<"i","s","_">>, <<"h","a","s","_">>, <<"c","a","n","_">>,
     <<"s","h","o","u","l","d","_">>, <<"w","i","l","l","_">>,
     <<"w","a","s","_">>}

BooleanStrings ==
    {<<"0">>, <<"1">>, <<"t","r","u","e">>, <<"f","a","l","s","e">>,
     <<"y","e","s">>, <<"n","o">>}

\* value in [0, 1, '0', '1', 'true', 'false', 'yes', 'no']
IsBooleanLiteral(val) ==
    \/ IsNumber(val) /\ NumOf(val) \in {0, 1}
    \/ IsStr(val) /\ Str(val) \in BooleanStrings

detect_boolean(field) ==
    LET name == NameOf(field)
        value == Get(field, "field_value")
    IN Min(Bonus(\E p \in BooleanPrefixes : StartsWith(name, p), 80)
           + (IF IsBool(value) THEN 20
              ELSE IF IsBooleanLiteral(value) THEN 15
              ELSE 0),
           95)

\* the strings float() takes besides decimal literals, lower-cased
FloatWords == {<<"i","n","f">>, <<"i","n","f","i","n","i","t","y">>, <<"n","a","n">>}

\* digits, at most one ".", at least one digit
IsMantissa(s) ==
    /\ AllIn(s, 1, Len(s), Range(DigitChars) \cup {"."})
    /\ Cardinality({i \in DOMAIN s : s[i] = "."}) <= 1
    /\ \E i \in DOMAIN s : IsDigit(s[i])

\* s without one leading sign
Unsigned(s) == IF s # <<>> /\ Head(s) \in {"+", "-"} THEN Tail(s) ELSE s

\* float(s) does not raise.  Surrounding whitespace and "_" digit grouping,
\* which float() also takes, are left out: no field value here holds a digit
\* string with either.
FloatParses(s) ==
    LET body == Unsigned(s)
        exps == {i \in DOMAIN body : body[i] \in {"e", "E"}}
    IN \/ Lower(body) \in FloatWords
       \/ exps = {} /\ IsMantissa(body)
       \/ \E e \in exps :
            /\ IsMantissa(SubSeq(body, 1, e - 1))
            /\ IsDigitStr(Unsigned(SubSeq(body, e + 1, Len(body))))

detect_numeric(field) ==
    LET value == Get(field, "field_value")
    IN IF IsNumber(value) THEN 60
       ELSE IF FloatParses(Str(value)) THEN 50
       ELSE 0

LocationWords ==
    {<<"a","d","d","r","e","s","s">>, <<"l","o","c","a","t","i","o","n">>,
     <<"c","i","t","y">>, <<"s","t","a","t","e">>,
     <<"c","o","u","n","t","r","y">>, <<"z","i","p">>,
     <<"p","o","s","t","a","l">>, <<"l","a","t","i","t","u","d","e">>,
     <<"l","o","n","g","i","t","u","d","e">>, <<"c","o","o","r","d","s">>,
     <<"r","e","g","i","o","n">>, <<"a","r","e","a">>, <<"p","l","a","c","e">>,
     <<"v","e","n","u","e">>, <<"g","e","o">>}

\* the whole of s matches -?\d+\.?\d*
MatchDecimal(s) ==
    LET body == IF s # <<>> /\ Head(s) = "-" THEN Tail(s) ELSE s
    IN /\ body # <<>>
       /\ IsDigit(Head(body))
       /\ AllIn(body, 1, Len(body), Range(DigitChars) \cup {"."})
       /\ Cardinality({i \in DOMAIN body : body[i] = "."}) <= 1

\* re.match(r'^-?\d+\.?\d*,-?\d+\.?\d*$', s)
MatchCoords(s) ==
    \E c \in DOMAIN s :
        /\ s[c] = ","
        /\ MatchDecimal(SubSeq(s, 1, c - 1))
        /\ MatchDecimal(SubSeq(s, c + 1, Len(s)))

detect_location(field) ==
    LET name == NameOf(field)
        value == ValueStr(field)
    IN Min(Bonus(AnyIn(name, LocationWords), 70) + Bonus(MatchCoords(value), 30), 95)

CancelWords ==
    {<<"c","a","n","c","e","l">>, <<"v","o","i","d">>,
     <<"r","e","v","o","k","e">>, <<"t","e","r","m","i","n","a","t","e">>,
     <<"e","x","p","i","r","e">>}

RemovedWords ==
    {<<"d","e","l","e","t","e","d">>, <<"r","e","m","o","v","e","d">>,
     <<"d","i","s","a","b","l","e","d">>}

detect_cancellation(field) ==
    LET name == NameOf(field)
    IN Min(Bonus(AnyIn(name, CancelWords), 75) + Bonus(AnyIn(name, RemovedWords), 60), 90)

DescriptionWords ==
    {<<"d","e","s","c","r","i","p","t","i","o","n">>,
     <<"s","u","m","m","a","r","y">>, <<"n","o","t","e">>,
     <<"c","o","m","m","e","n","t">>, <<"d","e","t","a","i","l">>}

detect_description(field) ==
    LET name == NameOf(field)
        value == Get(field, "field_value")
    IN Min(Bonus(AnyIn(name, DescriptionWords), 70)
           + Bonus(IsStr(value) /\ Len(Str(value)) > 100, 20),
           85)

KeywordWords ==
    {<<"t","a","g">>, <<"l","a","b","e","l">>,
     <<"c","a","t","e","g","o","r","y">>, <<"t","y","p","e">>,
     <<"k","i","n","d">>, <<"c","l","a","s","s">>}

detect_keyword(field) ==
    LET name == NameOf(field)
    IN Min(Bonus(AnyIn(name, KeywordWords), 70), 85)

(***************************************************************************)
(* Custom detectors.  The module defines four of them (the self-test's     *)
(* detect_api_key and the domain packs' detectors); a caller may register  *)
(* any callable, here one that returns a fixed number c whatever the field *)
(* is, and one that raises.  A detector is the record [fn, c].             *)
(***************************************************************************)
ApiKeyPrefixes ==
    {<<"s","k","_">>, <<"p","k","_">>}

detect_api_key(field) ==
    IF \E p \in ApiKeyPrefixes : StartsWith(ValueStr(field), p) THEN 95 ELSE 0

TickerWords ==
    {<<"t","i","c","k","e","r">>, <<"s","y","m","b","o","l">>}

\* re.match(r'^[A-Z]{1,5}$', s)
MatchTicker(s) ==
    Len(s) >= 1 /\ Len(s) <= 5 /\ AllIn(s, 1, Len(s), Range(UpperChars))

detect_ticker(field) ==
    LET name == NameOf(field)
        value == ValueStr(field)
    IN Min(Bonus(AnyIn(name, TickerWords), 70) + Bonus(MatchTicker(value), 30), 95)

\* re.match(r'^[A-Z]{2}[A-Z0-9]{10}$', s)
MatchIsin(s) ==
    /\ Len(s) = 12
    /\ AllIn(s, 1, 2, Range(UpperChars))
    /\ AllIn(s, 3, 12, Range(UpperChars) \cup Range(DigitChars))

detect_isin(field) == IF MatchIsin(ValueStr(field)) THEN 90 ELSE 0

MedicalWords ==
    {<<"i","c","d">>, <<"c","p","t">>, <<"n","d","c">>,
     <<"s","n","o","m","e","d">>}

\* re.match(r'^[A-Z]\d{2}\.?\d*$', s)
MatchIcd10(s) ==
    /\ Len(s) >= 3
    /\ IsUpper(s[1])
    /\ AllIn(s, 2, 3, Range(DigitChars))
    /\ AllIn(s, 4, Len(s), Range(DigitChars) \cup {"."})
    /\ \A i \in 5..Len(s) : s[i] # "."

detect_medical_code(field) ==
    LET name == NameOf(field)
        value == ValueStr(field)
    IN Min(Bonus(AnyIn(name, MedicalWords), 80) + Bonus(MatchIcd10(value), 20), 95)

\* a function the module defines, by name
Named(fn) == [fn |-> fn, c |-> 0]

\* a caller's detector: lambda field: c
Returns(c) == [fn |-> "returns", c |-> c]

\* a caller's detector whose body raises
Raising == [fn |-> "raises", c |-> 0]

\* rule_def['detector'](field) raises
Raises(detector, field) == detector.fn = "raises"

\* the value detector(field) returns when it does not raise
Invoke(detector, field) ==
    CASE detector.fn = "_detect_identifier" -> detect_identifier(field)
      [] detector.fn = "_detect_temporal" -> detect_temporal(field)
      [] detector.fn = "_detect_email" -> detect_email(field)
      [] detector.fn = "_detect_url" -> detect_url(field)
      [] detector.fn = "_detect_phone" -> detect_phone(field)
      [] detector.fn = "_detect_currency" -> detect_currency(field)
      [] detector.fn = "_detect_percentage" -> detect_percentage(field)
      [] detector.fn = "_detect_status" -> detect_status(field)
      [] detector.fn = "_detect_boolean" -> detect_boolean(field)
      [] detector.fn = "_detect_numeric" -> detect_numeric(field)
      [] detector.fn = "_detect_location" -> detect_location(field)
      [] detector.fn = "_detect_cancellation" -> detect_cancellation(field)
      [] detector.fn = "_detect_description" -> detect_description(field)
      [] detector.fn = "_detect_keyword" -> detect_keyword(field)
      [] detector.fn = "detect_api_key" -> detect_api_key(field)
      [] detector.fn = "detect_ticker" -> detect_ticker(field)
      [] detector.fn = "detect_isin" -> detect_isin(field)
      [] detector.fn = "detect_medical_code" -> detect_medical_code(field)
      [] detector.fn = "returns" -> detector.c

(***************************************************************************)
(* The fields analysed                                                     *)
(***************************************************************************)
Text(s) == StrVal(s)

\* {}
EmptyField == <<>>

\* {'field_name': 'is_cancelled', 'field_type': 'boolean'}
CancelledField ==
    [field_name |-> Text(<<"i","s","_","c","a","n","c","e","l","l","e","d">>),
     field_type |-> Text(<<"b","o","o","l","e","a","n">>)]

\* {'field_name': 'email_address', 'field_value': 'user@example.com'}
EmailField ==
    [field_name |-> Text(<<"e","m","a","i","l","_","a","d","d","r","e","s","s">>),
     field_value |->
        Text(<<"u","s","e","r","@","e","x","a","m","p","l","e",".","c","o","m">>)]

\* {'field_name': 'token', 'field_value': 'sk_test_123456'}
TokenField ==
    [field_name |-> Text(<<"t","o","k","e","n">>),
     field_value |-> Text(<<"s","k","_","t","e","s","t","_","1","2","3","4","5","6">>)]

\* {'field_name': 'state_code'}: identifier, status and location all score 70
StateCodeField ==
    [field_name |-> Text(<<"s","t","a","t","e","_","c","o","d","e">>)]

\* {'field_name': 'key_id', 'field_value': 'sk_live1'}: identifier scores 95,
\* and so does detect_api_key
KeyIdField ==
    [field_name |-> Text(<<"k","e","y","_","i","d">>),
     field_value |-> Text(<<"s","k","_","l","i","v","e","1">>)]

Fields ==
    {EmptyField, CancelledField, EmailField, TokenField, StateCodeField, KeyIdField}

\* {'field_name': 'ticker', 'field_value': 'AAPL'}
TickerField ==
    [field_name |-> Text(<<"t","i","c","k","e","r">>),
     field_value |-> Text(<<"A","A","P","L">>)]

\* {'field_name': 'ticker', 'field_value': 'US0378331005'}: a ticker by its
\* name, an ISIN by its value
TickerIsinField ==
    [field_name |-> Text(<<"t","i","c","k","e","r">>),
     field_value |-> Text(<<"U","S","0","3","7","8","3","3","1","0","0","5">>)]

\* the fields the finance pack is tried on
PackFields == {TickerField, TickerIsinField}

\* the functions of the module a rule's detector may be
DetectorNames ==
    {"_detect_identifier", "_detect_temporal", "_detect_email", "_detect_url",
     "_detect_phone", "_detect_currency", "_detect_percentage", "_detect_status",
     "_detect_boolean", "_detect_numeric", "_detect_location",
     "_detect_cancellation", "_detect_description", "_detect_keyword",
     "detect_api_key", "detect_ticker", "detect_isin", "detect_medical_code"}

\* detectors are pure: what each function returns for each field, worked out once
Confidences ==
    [field \in Fields \cup PackFields |->
        [fn \in DetectorNames |-> Invoke(Named(fn), field)]]

\* what every function of the module returns for the field
Results(field) == Confidences[field]

\* the value rule_def['detector'](field) returns when it does not raise, given
\* the results for the field
Call(detector, results) ==
    IF detector.fn = "returns" THEN detector.c ELSE results[detector.fn]


(***************************************************************************)
(* Python dicts.  A rule registry is a dict in insertion order: a sequence *)
(* of entries [key, priority, detector] with distinct keys.                *)
(***************************************************************************)
Rule(key, priority, detector) ==
    [key |-> key, priority |-> priority, detector |-> detector]

Keys(d) == {d[i].key : i \in DOMAIN d}

\* the assignment as delete-then-insert: a key that is assigned again moves to
\* the end of the iteration order
DictSetMoveToEnd(d, e) ==
    Append(SelectSeq(d, LAMBDA x : x.key # e.key), e)

\* the assignment that keeps what an existing key holds (first write wins)
DictSetKeepFirst(d, e) == IF e.key \in Keys(d) THEN d ELSE Append(d, e)

\* d[e.key] = e: an existing key keeps its place, a new key goes last
DictSet(d, e) ==
    IF e.key \in Keys(d)
    THEN [i \in DOMAIN d |-> IF d[i].key = e.key THEN e ELSE d[i]]
    ELSE Append(d, e)

\* {**a, **b}
RECURSIVE DictMerge(_, _)
DictMerge(a, b) ==
    IF b = <<>> THEN a ELSE DictMerge(DictSet(a, Head(b)), Tail(b))

\* d[key]
Lookup(d, key) == d[CHOOSE i \in DOMAIN d : d[i].key = key]

(***************************************************************************)
(* SemanticProtocolV2.analyze                                              *)
(***************************************************************************)
Match(semantic_type, confidence, priority) ==
    [semantic_type |-> semantic_type, confidence |-> confidence,
     priority |-> priority]

\* the rules of both tables one after the other: a key of both is scored twice
AllRulesOfBoth(builtin, custom) == builtin \o custom

\* all_rules = {**self.semantic_rules, **self.custom_rules}
AllRules(builtin, custom) == DictMerge(builtin, custom)

\* the filter with > for >=: a match equal to the threshold is dropped
PassesAboveOnly(confidence, threshold) == confidence > threshold

\* the filter turned round: it keeps what is at or below the threshold
PassesBelow(confidence, threshold) == confidence <= threshold

\* if confidence >= threshold
Passes(confidence, threshold) == confidence >= threshold

\* the loop over all_rules.items(), when no detector raises; results holds
\* what the detectors return for the field
RECURSIVE Matches(_, _, _)
Matches(rules, results, threshold) ==
    IF rules = <<>> THEN <<>>
    ELSE LET rule == Head(rules)
             confidence == Call(rule.detector, results)
             rest == Matches(Tail(rules), results, threshold)
         IN IF Passes(confidence, threshold)
            THEN <<Match(rule.key, confidence, rule.priority)>> \o rest
            ELSE rest

\* the order an ascending sort followed by list.reverse() gives: entries with
\* equal keys end in the reverse of their original order
KeyGreaterOrEqual(a, b) ==
    \/ a.confidence > b.confidence
    \/ a.confidence = b.confidence /\ a.priority >= b.priority

\* the sort key without the priority: key = lambda x: x['confidence']
KeyGreaterNoPriority(a, b) == a.confidence > b.confidence

\* the sort key with the priority first: key = (x['priority'], x['confidence'])
KeyGreaterPriorityFirst(a, b) ==
    \/ a.priority > b.priority
    \/ a.priority = b.priority /\ a.confidence > b.confidence

\* key(a) > key(b) for key = lambda x: (x['confidence'], x['priority'])
KeyGreater(a, b) ==
    \/ a.confidence > b.confidence
    \/ a.confidence = b.confidence /\ a.priority > b.priority

\* m put into a list sorted in descending key order, after the entries whose
\* key is not smaller: list.sort is stable, with reverse=True too
RECURSIVE Insert(_, _)
Insert(sorted, m) ==
    IF sorted = <<>> THEN <<m>>
    ELSE IF KeyGreater(m, Head(sorted)) THEN <<m>> \o sorted
    ELSE <<Head(sorted)>> \o Insert(Tail(sorted), m)

\* matches.sort(key=lambda x: (x['confidence'], x['priority']), reverse=True)
RECURSIVE SortDesc(_)
SortDesc(matches) ==
    IF matches = <<>> THEN <<>>
    ELSE Insert(SortDesc(SubSeq(matches, 1, Len(matches) - 1)),
                matches[Len(matches)])

\* the slice that takes one entry too many
SliceOneMore(matches, n) == SubSeq(matches, 1, Min(n + 1, Len(matches)))

\* matches[:n]
Slice(matches, n) ==
    IF n >= 0 THEN SubSeq(matches, 1, Min(n, Len(matches)))
    ELSE SubSeq(matches, 1, Len(matches) + n)

Returned(value) == [outcome |-> "returned", value |-> value]

Raised == [outcome |-> "raised"]

\* {'semantic_type': None, 'confidence': 0}
NoSemantics == [semantic_type |-> None, confidence |-> 0]

\* the body of analyze once all_rules is built
Resolve(all_rules, field, context, threshold, max_semantics) ==
    IF DOMAIN field = {} THEN Returned(NoSemantics)
    ELSE LET rules == all_rules
         IN IF \E i \in DOMAIN rules : Raises(rules[i].detector, field)
            THEN Raised
            ELSE LET matches == SortDesc(Matches(rules, Results(field), threshold))
                 IN IF max_semantics = 1
                    THEN IF matches # <<>>
                         THEN Returned(
                                [semantic_type |-> StrVal(matches[1].semantic_type),
                                 confidence |-> matches[1].confidence,
                                 context |-> context,
                                 metadata |-> [all_matches |-> matches,
                                               threshold |-> threshold]])
                         ELSE Returned(NoSemantics)
                    ELSE LET selected == Slice(matches, max_semantics)
                         IN Returned(
                              [semantic_types |->
                                  [i \in DOMAIN selected |-> selected[i].semantic_type],
                               confidences |->
                                  [i \in DOMAIN selected |-> selected[i].confidence],
                               context |-> context,
                               metadata |-> [all_matches |-> matches,
                                             threshold |-> threshold,
                                             multi_semantic |-> TRUE]])

\* the outcome of analyze(field, context, threshold, max_semantics) on the
\* registries given
Analyze(builtin, custom, field, context, threshold, max_semantics) ==
    Resolve(AllRules(builtin, custom), field, context, threshold, max_semantics)

\* analyze's defaults: context='display', threshold=50, max_semantics=1
DefaultContext == "display"

DefaultThreshold == 50

DefaultMaxSemantics == 1

\* bool(value) for the values result.get('semantic_type') takes
Truthy(val) == val.t = "str" /\ val.v # ""

\* identify(field, threshold)
Identify(builtin, custom, field, threshold) ==
    LET result == Analyze(builtin, custom, field, DefaultContext, threshold,
                          DefaultMaxSemantics)
    IN IF result.outcome = "raised" THEN Raised
       ELSE Returned(result.value.semantic_type)

Directive(component, props) == [component |-> component, props |-> props]

\* {'component': 'Text', 'props': {}}
DefaultDirective == Directive("Text", {})

\* the assignment that keeps the directive a semantic type already has
RenderSetKeepFirst(renders, semantic_type, directive) ==
    [k \in DOMAIN renders \cup {semantic_type} |->
        IF k \in DOMAIN renders THEN renders[k] ELSE directive]

\* self.render_map[semantic_type] = {'component': ..., 'props': ...}
RenderSet(renders, semantic_type, directive) ==
    [k \in DOMAIN renders \cup {semantic_type} |->
        IF k = semantic_type THEN directive ELSE renders[k]]

\* the second half of render: the directive for the result of analyze
RenderLookup(renders, result) ==
    IF result.outcome = "raised" THEN Raised
    ELSE LET semantic_type == result.value.semantic_type
         IN IF Truthy(semantic_type) /\ semantic_type.v \in DOMAIN renders
            THEN Returned(renders[semantic_type.v])
            ELSE Returned(DefaultDirective)

\* render(field, context)
Render(builtin, custom, renders, field, context) ==
    RenderLookup(renders, Analyze(builtin, custom, field, context,
                                  DefaultThreshold, DefaultMaxSemantics))

\* analyze_multi(field, max_semantics): a list of (semantic_type, confidence)
AnalyzeMulti(builtin, custom, field, max_semantics) ==
    LET result == Analyze(builtin, custom, field, DefaultContext,
                          DefaultThreshold, max_semantics)
    IN IF result.outcome = "raised" THEN Raised
       ELSE LET r == result.value
            IN IF "semantic_types" \in DOMAIN r
               THEN Returned([i \in DOMAIN r.semantic_types |->
                                <<r.semantic_types[i], r.confidences[i]>>])
               ELSE IF Truthy(r.semantic_type)
               THEN Returned(<<<<r.semantic_type.v, r.confidence>>>>)
               ELSE Returned(<<>>)

(***************************************************************************)
(* The engine: SemanticProtocolV2.__init__ and the public operations       *)
(***************************************************************************)
VARIABLES
    semantic_rules,   \* self.semantic_rules: the builtin rules
    custom_rules,     \* self.custom_rules
    render_map,       \* self.render_map: semantic type -> directive
    call,             \* the call the caller made last, [op |-> "idle"] if none
    ret,              \* how that call ended: returned a value, or raised
    pack              \* how many calls of register_finance_pack have been made

vars == <<semantic_rules, custom_rules, render_map, call, ret, pack>>

\* self.semantic_rules as __init__ builds it
BuiltinRules ==
    << Rule("_is_identifier", 50, Named("_detect_identifier")),
       Rule("_is_temporal", 60, Named("_detect_temporal")),
       Rule("_is_email", 90, Named("_detect_email")),
       Rule("_is_url", 85, Named("_detect_url")),
       Rule("_is_phone", 85, Named("_detect_phone")),
       Rule("_is_currency", 80, Named("_detect_currency")),
       Rule("_is_percentage", 70, Named("_detect_percentage")),
       Rule("_is_status", 65, Named("_detect_status")),
       Rule("_is_boolean", 75, Named("_detect_boolean")),
       Rule("_is_numeric", 40, Named("_detect_numeric")),
       Rule("_is_location", 70, Named("_detect_location")),
       Rule("_is_cancellation", 55, Named("_detect_cancellation")),
       Rule("_is_description", 30, Named("_detect_description")),
       Rule("_is_keyword", 35, Named("_detect_keyword")) >>

\* self.render_map as __init__ builds it; props are sets of <<name, value>>
BuiltinRenders ==
    [k \in Keys(BuiltinRules) |->
        CASE k = "_is_identifier" ->
               Directive("Badge", {<<"variant", "outline">>, <<"copyable", "True">>})
          [] k = "_is_temporal" ->
               Directive("DateTime", {<<"format", "relative">>, <<"calendar", "True">>})
          [] k = "_is_email" ->
               Directive("Link", {<<"type", "email">>, <<"icon", "mail">>})
          [] k = "_is_url" ->
               Directive("Link", {<<"type", "url">>, <<"external", "True">>})
          [] k = "_is_phone" ->
               Directive("Link", {<<"type", "tel">>, <<"icon", "phone">>})
          [] k = "_is_currency" ->
               Directive("Currency", {<<"showSymbol", "True">>, <<"precision", "2">>})
          [] k = "_is_percentage" ->
               Directive("Progress", {<<"showValue", "True">>, <<"variant", "circular">>})
          [] k = "_is_status" ->
               Directive("StatusBadge", {<<"animated", "True">>})
          [] k = "_is_boolean" ->
               Directive("Toggle", {<<"readOnly", "True">>})
          [] k = "_is_numeric" ->
               Directive("Number", {<<"thousandsSeparator", "True">>})
          [] k = "_is_location" ->
               Directive("Location", {<<"showMap", "True">>, <<"icon", "pin">>})
          [] k = "_is_cancellation" ->
               Directive("Alert", {<<"variant", "warning">>, <<"icon", "alert-triangle">>})
          [] k = "_is_description" ->
               Directive("Text", {<<"expandable", "True">>, <<"maxLines", "3">>})
          [] k = "_is_keyword" ->
               Directive("Tag", {<<"size", "small">>})]

Idle == [op |-> "idle"]

NoOutcome == [outcome |-> "none"]

Init ==
    /\ semantic_rules = BuiltinRules
    /\ custom_rules = <<>>
    /\ render_map = BuiltinRenders
    /\ call = Idle
    /\ ret = NoOutcome
    /\ pack = 0

(***************************************************************************)
(* Inputs                                                                  *)
(***************************************************************************)
Contexts == {"display", "list"}

\* the context analyze is called with directly: it only passes it through
AnalyzeContexts == {"list"}

Thresholds == {50, 75, 96}

\* the largest max_semantics a caller passes
MaxSemantics == 2

MaxSemanticsValues == (-1)..MaxSemantics

\* the number of custom rules the registry may grow to
MaxCustom == 2

\* the keys a caller registers: the self-test's key, the key of a builtin rule,
\* and the empty key
Names == {"_is_api_key", "_is_email", ""}

\* register_rule's priority when the caller gives none
DefaultPriority == 50

\* the <<detector, priority>> a caller registers a name with: the self-test's
\* detect_api_key at priority 100 and at the default priority, a detector that
\* returns a number above 100, and one that raises
Registrations ==
    {<<Named("detect_api_key"), 100>>,
     <<Named("detect_api_key"), DefaultPriority>>,
     <<Returns(150), DefaultPriority>>,
     <<Raising, DefaultPriority>>}

\* register_render's arguments
RenderInputs ==
    {<<"_is_api_key", "SecretKey", {<<"masked", "True">>}>>,
     <<"_is_email", "Badge", {<<"variant", "outline">>}>>}

(***************************************************************************)
(* Operations                                                              *)
(***************************************************************************)
\* register_rule(name, detector, priority); the call record keeps the rule the
\* assignment replaced, None when the key was not in custom_rules
RegisterRule(name, detector, priority) ==
    /\ call = Idle
    /\ name \in Keys(custom_rules) \/ Len(custom_rules) < MaxCustom
    /\ custom_rules' = DictSet(custom_rules, Rule(name, priority, detector))
    /\ call' = [op |-> "register_rule", name |-> name, detector |-> detector,
                priority |-> priority,
                replaced |-> IF name \in Keys(custom_rules)
                             THEN Lookup(custom_rules, name) ELSE None]
    /\ ret' = Returned(None)
    /\ UNCHANGED <<semantic_rules, render_map, pack>>

\* register_render(semantic_type, component, props)
RegisterRender(semantic_type, component, props) ==
    /\ call = Idle
    /\ render_map' = RenderSet(render_map, semantic_type,
                               Directive(component, props))
    /\ call' = [op |-> "register_render", semantic_type |-> semantic_type,
                component |-> component, props |-> props]
    /\ ret' = Returned(None)
    /\ UNCHANGED <<semantic_rules, custom_rules, pack>>

\* analyze merging the custom rules into self.semantic_rules itself instead of
\* into a new dict
DoAnalyzeInPlace(field, context, threshold, max_semantics) ==
    /\ call = Idle
    /\ call' = [op |-> "analyze", field |-> field, context |-> context,
                threshold |-> threshold, max_semantics |-> max_semantics]
    /\ ret' = Analyze(semantic_rules, custom_rules, field, context, threshold,
                      max_semantics)
    /\ semantic_rules' = AllRules(semantic_rules, custom_rules)
    /\ UNCHANGED <<custom_rules, render_map, pack>>

\* analyze(field, context, threshold, max_semantics)
DoAnalyze(field, context, threshold, max_semantics) ==
    /\ call = Idle
    /\ call' = [op |-> "analyze", field |-> field, context |-> context,
                threshold |-> threshold, max_semantics |-> max_semantics]
    /\ ret' = Analyze(semantic_rules, custom_rules, field, context, threshold,
                      max_semantics)
    /\ UNCHANGED <<semantic_rules, custom_rules, render_map, pack>>

\* identify(field, threshold)
DoIdentify(field, threshold) ==
    /\ call = Idle
    /\ call' = [op |-> "identify", field |-> field, threshold |-> threshold]
    /\ ret' = Identify(semantic_rules, custom_rules, field, threshold)
    /\ UNCHANGED <<semantic_rules, custom_rules, render_map, pack>>

\* render(field, context)
DoRender(field, context) ==
    /\ call = Idle
    /\ call' = [op |-> "render", field |-> field, context |-> context]
    /\ ret' = Render(semantic_rules, custom_rules, render_map, field, context)
    /\ UNCHANGED <<semantic_rules, custom_rules, render_map, pack>>

\* analyze_multi(field, max_semantics)
DoAnalyzeMulti(field, max_semantics) ==
    /\ call = Idle
    /\ call' = [op |-> "analyze_multi", field |-> field,
                max_semantics |-> max_semantics]
    /\ ret' = AnalyzeMulti(semantic_rules, custom_rules, field, max_semantics)
    /\ UNCHANGED <<semantic_rules, custom_rules, render_map, pack>>

\* the caller is done with the result and goes on to its next call
Discard ==
    /\ call # Idle
    /\ call' = Idle
    /\ ret' = NoOutcome
    /\ UNCHANGED <<semantic_rules, custom_rules, render_map, pack>>

Next ==
    \/ \E name \in Names, r \in Registrations : RegisterRule(name, r[1], r[2])
    \/ \E r \in RenderInputs : RegisterRender(r[1], r[2], r[3])
    \/ \E field \in Fields, context \in AnalyzeContexts, threshold \in Thresholds,
          max_semantics \in MaxSemanticsValues :
          DoAnalyze(field, context, threshold, max_semantics)
    \/ \E field \in Fields, threshold \in Thresholds : DoIdentify(field, threshold)
    \/ \E field \in Fields, context \in Contexts : DoRender(field, context)
    \/ \E field \in Fields, max_semantics \in MaxSemanticsValues :
          DoAnalyzeMulti(field, max_semantics)
    \/ Discard

Spec == Init /\ [][Next]_vars

(***************************************************************************)
(* register_finance_pack running in one thread while another thread calls  *)
(* analyze and render.  The engine takes no lock, so the other thread runs *)
(* between any two calls of the pack; analyze reads both rule tables in    *)
(* one expression and works on that copy, render reads render_map after    *)
(* analyze has returned.                                                   *)
(***************************************************************************)
\* the calls register_finance_pack makes, in order
FinancePack ==
    << [op |-> "register_rule", name |-> "_is_ticker",
        detector |-> Named("detect_ticker"), priority |-> 85],
       [op |-> "register_rule", name |-> "_is_isin",
        detector |-> Named("detect_isin"), priority |-> 90],
       [op |-> "register_render", semantic_type |-> "_is_ticker",
        directive |-> Directive("StockTicker", {<<"showPrice", "True">>})],
       [op |-> "register_render", semantic_type |-> "_is_isin",
        directive |-> Directive("Badge", {<<"variant", "outline">>,
                                          <<"copyable", "True">>})] >>

\* the next call of register_finance_pack
PackStep ==
    /\ pack < Len(FinancePack)
    /\ LET step == FinancePack[pack + 1]
       IN IF step.op = "register_rule"
          THEN /\ custom_rules' =
                     DictSet(custom_rules,
                             Rule(step.name, step.priority, step.detector))
               /\ UNCHANGED render_map
          ELSE /\ render_map' =
                     RenderSet(render_map, step.semantic_type, step.directive)
               /\ UNCHANGED custom_rules
    /\ pack' = pack + 1
    /\ UNCHANGED <<semantic_rules, call, ret>>

\* render holds the result of analyze and has not yet read render_map
Pending(result) == [outcome |-> "pending", result |-> result]

\* render, up to the return of its call of analyze
RenderAnalyze(field, context) ==
    /\ call = Idle
    /\ call' = [op |-> "render", field |-> field, context |-> context]
    /\ ret' = Pending(Analyze(semantic_rules, custom_rules, field, context,
                              DefaultThreshold, DefaultMaxSemantics))
    /\ UNCHANGED <<semantic_rules, custom_rules, render_map, pack>>

\* render, from there: the lookup in render_map
RenderReturn ==
    /\ call # Idle
    /\ call.op = "render"
    /\ ret.outcome = "pending"
    /\ ret' = RenderLookup(render_map, ret.result)
    /\ UNCHANGED <<semantic_rules, custom_rules, render_map, call, pack>>

\* the caller goes on to its next call once the last one has ended
DiscardEnded ==
    /\ ret.outcome # "pending"
    /\ Discard

NextThreads ==
    \/ PackStep
    \/ \E field \in PackFields, threshold \in Thresholds,
          max_semantics \in MaxSemanticsValues :
          DoAnalyze(field, DefaultContext, threshold, max_semantics)
    \/ \E field \in PackFields : RenderAnalyze(field, DefaultContext)
    \/ RenderReturn
    \/ DiscardEnded

SpecThreads == Init /\ [][NextThreads]_vars

(***************************************************************************)
(* Properties.  They are stated about the call the caller made last and    *)
(* the registries it ran on, which no step changes before Discard.         *)
(***************************************************************************)
\* the rules the last call scored
Scored == AllRules(semantic_rules, custom_rules)

\* the confidence each of these rules reports for the field of the last call
ScoredConfidences(rules) ==
    LET results == Results(call.field)
    IN [i \in DOMAIN rules |-> Call(rules[i].detector, results)]

\* an analyze call on a non-empty field has returned
AnalyzeReturned ==
    /\ call.op = "analyze"
    /\ ret.outcome = "returned"
    /\ DOMAIN call.field # {}

\* it returned a result with a metadata block
HasMetadata == AnalyzeReturned /\ "metadata" \in DOMAIN ret.value

\* it returned the single-match form with a winner
HasWinner == HasMetadata /\ call.max_semantics = 1

\* the ranked list an analyze result carries
Ranked == ret.value.metadata.all_matches

\* where each of the rules stands in the ranked list, 0 if it is not in it
Positions(rules) ==
    LET ranked == Ranked
    IN [i \in DOMAIN rules |->
          IF \E k \in DOMAIN ranked : ranked[k].semantic_type = rules[i].key
          THEN CHOOSE k \in DOMAIN ranked : ranked[k].semantic_type = rules[i].key
          ELSE 0]

\* C1: of two rules that report the same confidence at or above the
\* threshold, the one with the higher priority is ranked before the other, and
\* analyze with max_semantics = 1 never returns the lower-priority one as the
\* winner.
TieBreakByPriority ==
    HasMetadata =>
        LET rules == Scored
            conf == ScoredConfidences(rules)
            pos == Positions(rules)
        IN \A i, j \in DOMAIN rules :
              (/\ conf[i] = conf[j]
               /\ conf[i] >= call.threshold
               /\ rules[i].priority > rules[j].priority) =>
                  /\ pos[i] > 0
                  /\ pos[i] < pos[j]
                  /\ HasWinner => ret.value.semantic_type # StrVal(rules[j].key)

\* a custom rule won over a builtin rule of the same confidence and a lower
\* priority
TieBreakWitness ==
    /\ HasWinner
    /\ LET rules == Scored
           conf == ScoredConfidences(rules)
       IN \E i, j \in DOMAIN rules :
             /\ conf[i] = conf[j]
             /\ conf[i] >= call.threshold
             /\ rules[i].priority > rules[j].priority
             /\ rules[i].key \in Keys(custom_rules)
             /\ rules[j].key \notin Keys(custom_rules)
             /\ ret.value.semantic_type = StrVal(rules[i].key)

\* C2: the winner analyze returns with max_semantics = 1 has the largest
\* confidence among the rules scoring at or above the threshold, whatever the
\* priorities are.
WinnerHasMaxConfidence ==
    HasWinner =>
        LET rules == Scored
            conf == ScoredConfidences(rules)
        IN /\ \E i \in DOMAIN rules :
                 /\ ret.value.semantic_type = StrVal(rules[i].key)
                 /\ ret.value.confidence = conf[i]
           /\ \A i \in DOMAIN rules :
                 conf[i] >= call.threshold => ret.value.confidence >= conf[i]

\* the winner beat a rule of higher priority and lower confidence
WinnerHasMaxConfidenceWitness ==
    /\ HasWinner
    /\ LET rules == Scored
           conf == ScoredConfidences(rules)
       IN \E i \in DOMAIN rules :
             /\ conf[i] >= call.threshold
             /\ conf[i] < ret.value.confidence
             /\ rules[i].priority > Ranked[1].priority

\* C3: analyze keeps a rule's match exactly when its confidence is greater
\* than or equal to the threshold: a match below it is in no returned list,
\* and a match equal to it is kept.
ThresholdFilter ==
    AnalyzeReturned =>
        LET rules == Scored
            conf == ScoredConfidences(rules)
        IN IF "metadata" \in DOMAIN ret.value
           THEN LET pos == Positions(rules)
                IN /\ ret.value.metadata.threshold = call.threshold
                   /\ \A i \in DOMAIN rules :
                         pos[i] > 0 <=> conf[i] >= call.threshold
                   /\ \A k \in DOMAIN Ranked :
                         Ranked[k].confidence >= call.threshold
                   /\ "confidences" \in DOMAIN ret.value =>
                         \A k \in DOMAIN ret.value.confidences :
                             ret.value.confidences[k] >= call.threshold
                   /\ "confidence" \in DOMAIN ret.value =>
                         ret.value.confidence >= call.threshold
           ELSE \A i \in DOMAIN rules : conf[i] < call.threshold

\* a match equal to the threshold was kept and a match below it was dropped
ThresholdFilterWitness ==
    /\ HasMetadata
    /\ \E k \in DOMAIN Ranked : Ranked[k].confidence = call.threshold
    /\ LET rules == Scored
           conf == ScoredConfidences(rules)
       IN \E i \in DOMAIN rules : conf[i] > 0 /\ conf[i] < call.threshold

Max(a, b) == IF a >= b THEN a ELSE b

\* no rule reports a confidence at or above the threshold for the field of the
\* last call (a detector that raises reports none)
NoRulePasses(threshold) ==
    LET rules == Scored
        conf == ScoredConfidences(rules)
    IN \A i \in DOMAIN rules :
          Raises(rules[i].detector, call.field) \/ conf[i] < threshold

\* C4: if no rule scores at or above the threshold for a field, analyze
\* returns semantic type none with confidence 0, render returns the default
\* directive (component Text, empty props), and neither raises.
NoMatchOutcome ==
    /\ (call.op = "analyze" /\ call.max_semantics = 1
            /\ NoRulePasses(call.threshold)) =>
          ret = Returned(NoSemantics)
    /\ (call.op = "render" /\ NoRulePasses(DefaultThreshold)) =>
          ret = Returned(DefaultDirective)

\* the semantic types a result of analyze returns, in order
ReturnedTypes(r) ==
    IF "semantic_types" \in DOMAIN r THEN r.semantic_types
    ELSE IF r.semantic_type.t = "none" THEN <<>>
    ELSE <<r.semantic_type.v>>

\* their confidences
ReturnedConfidences(r) ==
    IF "confidences" \in DOMAIN r THEN r.confidences
    ELSE IF r.semantic_type.t = "none" THEN <<>>
    ELSE <<r.confidence>>

\* the full ranked list for the last analyze call: what it returns when
\* max_semantics is as large as the number of rules
FullRanking ==
    Analyze(semantic_rules, custom_rules, call.field, call.context,
            call.threshold, Len(Scored)).value

\* what the last analyze call returns when max_semantics is 1
SingleResult ==
    Analyze(semantic_rules, custom_rules, call.field, call.context,
            call.threshold, DefaultMaxSemantics).value

\* the returned matches are the first entries of the full ranked list, and the
\* first of them is the winner for max_semantics = 1
PrefixOfRanking ==
    LET types == ReturnedTypes(ret.value)
        full == FullRanking
        single == SingleResult
    IN /\ Len(types) <= Len(full.semantic_types)
       /\ types = SubSeq(full.semantic_types, 1, Len(types))
       /\ ReturnedConfidences(ret.value) = SubSeq(full.confidences, 1, Len(types))
       /\ Len(full.semantic_types) > 0 =>
             /\ single.semantic_type = StrVal(full.semantic_types[1])
             /\ single.confidence = full.confidences[1]

InRange(confidence) == 0 <= confidence /\ confidence <= 100

\* C6: every confidence analyze compares or reports (the winner's, the
\* multi-match ones, those of the match list in the metadata) lies in
\* [0,100], also when a custom detector returns a value outside the range.
ConfidencesInRange ==
    AnalyzeReturned =>
        /\ \A k \in DOMAIN ReturnedConfidences(ret.value) :
              InRange(ReturnedConfidences(ret.value)[k])
        /\ "metadata" \in DOMAIN ret.value =>
              \A k \in DOMAIN Ranked : InRange(Ranked[k].confidence)

\* the rules whose detector does not raise for the field
NotRaising(rules, field) ==
    SelectSeq(rules, LAMBDA rule : ~Raises(rule.detector, field))

\* C7: if the detector of a registered rule raises while a field is analyzed,
\* analyze does not fail; every other rule is scored and ranked as if the
\* failing rule were absent.
DetectorIsolation ==
    call.op = "analyze" =>
        ret = Resolve(NotRaising(Scored, call.field), call.field, call.context,
                      call.threshold, call.max_semantics)

\* C8: the metadata block of an analyze result holds the unfiltered match
\* list, one entry for every registered rule, those below the threshold too,
\* and the threshold that was used.
MetadataUnfiltered ==
    AnalyzeReturned =>
        /\ "metadata" \in DOMAIN ret.value
        /\ ret.value.metadata.threshold = call.threshold
        /\ Len(Ranked) = Len(Scored)
        /\ \A i \in DOMAIN Scored :
              \E k \in DOMAIN Ranked : Ranked[k].semantic_type = Scored[i].key

\* the matches a result of analyze returns, as a set
ReturnedSet(r) ==
    {<<ReturnedTypes(r)[k], ReturnedConfidences(r)[k]>> :
        k \in DOMAIN ReturnedTypes(r)}

\* the matches in its metadata, as a set
MatchSet(r) ==
    IF "metadata" \in DOMAIN r
    THEN {r.metadata.all_matches[k] : k \in DOMAIN r.metadata.all_matches}
    ELSE {}

\* what the last analyze call returns with another threshold
WithThreshold(threshold) ==
    Analyze(semantic_rules, custom_rules, call.field, call.context, threshold,
            call.max_semantics)

\* C9: for a fixed field, fixed registries and fixed max_semantics, the match
\* set analyze returns with a threshold is a subset of, and no larger than,
\* the match set it returns with any lower threshold.
ThresholdMonotone ==
    (call.op = "analyze" /\ ret.outcome = "returned") =>
        \A t \in Thresholds :
            t <= call.threshold =>
                LET lower == WithThreshold(t)
                IN /\ lower.outcome = "returned"
                   /\ ReturnedSet(ret.value) \subseteq ReturnedSet(lower.value)
                   /\ Len(ReturnedTypes(ret.value)) <= Len(ReturnedTypes(lower.value))
                   /\ MatchSet(ret.value) \subseteq MatchSet(lower.value)

\* a higher threshold returned a non-empty match set that is smaller than the
\* one a lower threshold returns
ThresholdMonotoneWitness ==
    /\ AnalyzeReturned
    /\ ReturnedSet(ret.value) # {}
    /\ \E t \in Thresholds :
          /\ t < call.threshold
          /\ ReturnedSet(WithThreshold(t).value) # ReturnedSet(ret.value)

\* C10: a register_rule call never raises; after it the registry holds
\* exactly one rule per key, the rule of the key registered carries the
\* detector and priority of this call, and every other key keeps its rule. No
\* other call changes the registry, so each key carries what the most recent
\* register_rule call for it gave.
LastWriteWins ==
    [][/\ call'.op = "register_rule" =>
             /\ ret' = Returned(None)
             /\ Len(custom_rules') = Cardinality(Keys(custom_rules'))
             /\ Keys(custom_rules') = Keys(custom_rules) \cup {call'.name}
             /\ Lookup(custom_rules', call'.name)
                   = Rule(call'.name, call'.priority, call'.detector)
             /\ \A k \in Keys(custom_rules) \ {call'.name} :
                   Lookup(custom_rules', k) = Lookup(custom_rules, k)
       /\ call'.op # "register_rule" => custom_rules' = custom_rules]_vars

\* a register_rule call for a key that was in the registry already: the key
\* stands before another one, so it was not appended by this call
LastWriteWinsWitness ==
    /\ call.op = "register_rule"
    /\ ret = Returned(None)
    /\ Len(custom_rules) = 2
    /\ custom_rules[1] = Rule(call.name, call.priority, call.detector)

\* C11: register_rule called with a null or empty key is rejected with a
\* validation error and leaves the rule registry unchanged.
EmptyKeyRejected ==
    /\ (call.op = "register_rule" /\ call.name = "") => ret = Raised
    /\ "" \notin Keys(custom_rules)

\* what analyze reports for the rules with the given keys: how the call ends
\* and, when it returns, their entries in the full ranked match list
EntriesOf(keys, builtin, custom, field, threshold) ==
    LET result == Analyze(builtin, custom, field, DefaultContext, threshold,
                          Len(builtin) + Len(custom))
    IN IF result.outcome = "raised" THEN Raised
       ELSE IF "metadata" \notin DOMAIN result.value THEN Returned(<<>>)
       ELSE Returned(SelectSeq(result.value.metadata.all_matches,
                               LAMBDA m : m.semantic_type \in keys))

\* C12: registering a rule under a new key does not change the confidence that
\* any previously registered rule reports for any field: the match entries of
\* the existing rules are the same before and after the registration.
RegistryIsolation ==
    [][(/\ call'.op = "register_rule"
        /\ call'.name # ""
        /\ call'.name \notin Keys(AllRules(semantic_rules, custom_rules))) =>
          LET keys == Keys(AllRules(semantic_rules, custom_rules))
          IN \A field \in Fields, threshold \in Thresholds :
                EntriesOf(keys, semantic_rules, custom_rules', field, threshold)
                    = EntriesOf(keys, semantic_rules, custom_rules, field, threshold)
      ]_vars

\* C13: calling register_rule a second time with the same key, detector and
\* priority leaves the engine in a state where analyze of any field gives the
\* same result as after the first call alone.
IdempotentRegistration ==
    [][(/\ call'.op = "register_rule"
        /\ call'.name \in Keys(custom_rules)
        /\ Lookup(custom_rules, call'.name)
              = Rule(call'.name, call'.priority, call'.detector)) =>
          \A field \in Fields, context \in AnalyzeContexts,
             threshold \in Thresholds, max_semantics \in MaxSemanticsValues :
                Analyze(semantic_rules, custom_rules', field, context,
                        threshold, max_semantics)
                    = Analyze(semantic_rules, custom_rules, field, context,
                              threshold, max_semantics)
      ]_vars

\* a register_rule call repeated the registration its key already had, with
\* another custom rule registered after it
IdempotentRegistrationWitness ==
    /\ call.op = "register_rule"
    /\ call.replaced = Rule(call.name, call.priority, call.detector)
    /\ Len(custom_rules) = 2
    /\ custom_rules[1].key = call.name

\* every custom rule is registered under a non-empty key
NonEmptyKeys == "" \notin Keys(custom_rules)

\* what analyze returns for the field of the last call with max_semantics = 1
WinnerAt(context, threshold) ==
    Analyze(semantic_rules, custom_rules, call.field, context, threshold,
            DefaultMaxSemantics)

\* C14: render returns the render directive registered for the winning semantic
\* type, and the default directive (component Text, empty props) whenever no
\* rule clears the threshold or the winning semantic type has no entry in the
\* render registry; it does not raise for a missing entry.
RenderDirective ==
    (call.op = "render" /\ NonEmptyKeys) =>
        IF call.field = EmptyField \/ NoRulePasses(DefaultThreshold)
        THEN ret = Returned(DefaultDirective)
        ELSE LET analysis == WinnerAt(call.context, DefaultThreshold)
             IN analysis.outcome = "returned" =>
                   LET winner == analysis.value.semantic_type.v
                   IN ret = Returned(IF winner \in DOMAIN render_map
                                     THEN render_map[winner]
                                     ELSE DefaultDirective)

\* C17: identify(field, threshold) returns the winning semantic type that
\* analyze(field, threshold, max_semantics = 1) returns, and none when no rule
\* reaches the threshold or the field is empty.
IdentifyWinner ==
    (call.op = "identify" /\ NonEmptyKeys) =>
        IF call.field = EmptyField \/ NoRulePasses(call.threshold)
        THEN ret = Returned(None)
        ELSE LET analysis == WinnerAt(DefaultContext, call.threshold)
             IN analysis.outcome = "returned" =>
                   ret = Returned(analysis.value.semantic_type)

\* a render call for a field whose winner has an entry in the render registry
\* returns that entry
RenderOfWinner ==
    (call.op = "render" /\ call.field # EmptyField) =>
        LET analysis == WinnerAt(call.context, DefaultThreshold)
        IN (/\ analysis.outcome = "returned"
            /\ Truthy(analysis.value.semantic_type)
            /\ analysis.value.semantic_type.v \in DOMAIN render_map) =>
              ret = Returned(render_map[analysis.value.semantic_type.v])

\* C15: register_render overwrites the render directive its semantic type has,
\* without error, and leaves the entries of the other semantic types as they
\* are; no other call changes the render registry, and render for a field
\* whose winner is a registered type returns the entry of that type, so the
\* component and props of the most recent registration.
RenderLastWriteWins ==
    /\ [][/\ call'.op = "register_render" =>
                /\ ret' = Returned(None)
                /\ DOMAIN render_map' = DOMAIN render_map \cup {call'.semantic_type}
                /\ render_map'[call'.semantic_type]
                      = Directive(call'.component, call'.props)
                /\ \A k \in DOMAIN render_map \ {call'.semantic_type} :
                      render_map'[k] = render_map[k]
          /\ call'.op # "register_render" => render_map' = render_map]_vars
    /\ []RenderOfWinner

\* render returned the directive a register_render call put in the place of
\* the builtin one
RenderLastWriteWinsWitness ==
    /\ call.op = "render"
    /\ call.field = EmailField
    /\ WinnerAt(call.context, DefaultThreshold).outcome = "returned"
    /\ WinnerAt(call.context, DefaultThreshold).value.semantic_type
          = StrVal("_is_email")
    /\ BuiltinRenders["_is_email"].component = "Link"
    /\ ret = Returned(Directive("Badge", {<<"variant", "outline">>}))

\* two entries of a ranked list tie fully: same confidence, same priority
FullTie(a, b) == a.confidence = b.confidence /\ a.priority = b.priority

\* where the claim places a rule: the builtin rules in declaration order, then
\* the custom rules in the order of their first registration
ClaimedPlace(key) ==
    IF key \in Keys(custom_rules)
    THEN Len(semantic_rules)
            + (CHOOSE i \in DOMAIN custom_rules : custom_rules[i].key = key)
    ELSE CHOOSE i \in DOMAIN semantic_rules : semantic_rules[i].key = key

\* where a rule stands when analyze iterates over all_rules
IterationPlace(key) ==
    LET rules == Scored
    IN CHOOSE i \in DOMAIN rules : rules[i].key = key

\* C20, as claimed: matches of equal confidence and equal priority appear in
\* the ranked list with the builtin rules in declaration order first, then the
\* custom rules in first-registration order.
FullTiesBuiltinThenCustom ==
    (HasMetadata /\ NonEmptyKeys) =>
        LET ranked == Ranked
        IN \A k, l \in DOMAIN ranked :
              (k < l /\ FullTie(ranked[k], ranked[l])) =>
                 ClaimedPlace(ranked[k].semantic_type)
                    < ClaimedPlace(ranked[l].semantic_type)

\* C20, amended: matches of equal confidence and equal priority appear in the
\* ranked list in the iteration order of all_rules, although the sort is in
\* descending order: the builtin keys in declaration order, a custom rule
\* registered under a builtin key in that builtin's place, then the other
\* custom rules in first-registration order.
FullTiesIterationOrder ==
    HasMetadata =>
        LET ranked == Ranked
            rules == Scored
            place == [k \in DOMAIN ranked |->
                        CHOOSE i \in DOMAIN rules :
                            rules[i].key = ranked[k].semantic_type]
        IN /\ \A k, l \in DOMAIN ranked :
                 (k < l /\ FullTie(ranked[k], ranked[l])) => place[k] < place[l]
           /\ \A i \in DOMAIN rules :
                 rules[i].key \in Keys(semantic_rules) =>
                    /\ i <= Len(semantic_rules)
                    /\ semantic_rules[i].key = rules[i].key
           /\ \A i, j \in DOMAIN custom_rules :
                 (/\ i < j
                  /\ custom_rules[i].key \notin Keys(semantic_rules)
                  /\ custom_rules[j].key \notin Keys(semantic_rules)) =>
                    /\ IterationPlace(custom_rules[i].key)
                          < IterationPlace(custom_rules[j].key)
                    /\ IterationPlace(custom_rules[i].key) > Len(semantic_rules)

\* a builtin rule and a custom rule tie fully in a returned ranking
FullTiesWitness ==
    /\ HasMetadata
    /\ \E k, l \in DOMAIN Ranked :
          /\ k < l
          /\ FullTie(Ranked[k], Ranked[l])
          /\ Ranked[k].semantic_type \in Keys(semantic_rules)
          /\ Ranked[l].semantic_type \in Keys(custom_rules)

\* a warning or danger variant among the props of a directive
WarnsOrEndangers(directive) ==
    \/ <<"variant", "warning">> \in directive.props
    \/ <<"variant", "danger">> \in directive.props

\* C19: with the builtin rules, analyzing the field named is_cancelled of
\* declared type boolean (no value) with threshold 50 yields the winning
\* semantic type cancellation with a confidence of at least 90, and in context
\* list its render directive names a warning or danger component.
CancellationExample ==
    /\ (/\ call.op = "analyze"
        /\ call.field = CancelledField
        /\ call.threshold = 50
        /\ call.max_semantics = DefaultMaxSemantics
        /\ custom_rules = <<>>) =>
          /\ ret.outcome = "returned"
          /\ ret.value.semantic_type = StrVal("_is_cancellation")
          /\ ret.value.confidence >= 90
    /\ (/\ call.op = "render"
        /\ call.field = CancelledField
        /\ call.context = "list"
        /\ custom_rules = <<>>
        /\ render_map = BuiltinRenders) =>
          /\ ret.outcome = "returned"
          /\ WarnsOrEndangers(ret.value)

\* custom_rules once register_finance_pack has returned
PackRules ==
    << Rule("_is_ticker", 85, Named("detect_ticker")),
       Rule("_is_isin", 90, Named("detect_isin")) >>

\* render_map once register_finance_pack has returned
PackRenders ==
    RenderSet(RenderSet(BuiltinRenders, "_is_ticker", FinancePack[3].directive),
              "_is_isin", FinancePack[4].directive)

\* C18: when a multi-step pack registration interleaves with an in-flight
\* analyze or render call, the call sees a complete rule set, never a
\* partially updated one: it returns what it returns either before the pack is
\* registered or after all of it is registered.
InFlightSeesWholePack ==
    /\ (call.op = "analyze" /\ ret.outcome = "returned") =>
          ret \in {Analyze(BuiltinRules, <<>>, call.field, call.context,
                           call.threshold, call.max_semantics),
                   Analyze(BuiltinRules, PackRules, call.field, call.context,
                           call.threshold, call.max_semantics)}
    /\ (call.op = "render" /\ ret.outcome = "returned") =>
          ret \in {Render(BuiltinRules, <<>>, BuiltinRenders, call.field,
                          call.context),
                   Render(BuiltinRules, PackRules, PackRenders, call.field,
                          call.context)}

(***************************************************************************)
(* The first version of the engine: SemanticProtocol in                    *)
(* semantic_protocol.py.  Its rules return a confidence between 0.0 and    *)
(* 1.0; the model holds it in hundredths (0.95 is 95).  A field is the     *)
(* dict analyze builds: name and type are strings, value any value.        *)
(***************************************************************************)
V1Field(name, type, value) == [name |-> name, type |-> type, value |-> value]

is_cancellation(field) ==
    LET V1CancelWords ==
            {<<"c","a","n","c","e","l">>, <<"t","e","r","m","i","n","a","t","e">>,
             <<"e","x","p","i","r","e">>, <<"r","e","v","o","k","e">>,
             <<"v","o","i","d">>, <<"d","e","l","e","t","e">>}
        V1InactiveWords ==
            {<<"i","n","a","c","t","i","v","e">>, <<"d","i","s","a","b","l","e","d">>}
        name == Lower(field.name)
    IN IF AnyIn(name, V1CancelWords) THEN 95
       ELSE IF /\ field.type = <<"b","o","o","l","e","a","n">>
               /\ Contains(name, <<"i","s","_">>)
               /\ AnyIn(name, V1InactiveWords) THEN 85
       ELSE 0

is_currency(field) ==
    LET V1CurrencyTypes ==
            {<<"d","e","c","i","m","a","l">>, <<"m","o","n","e","y">>,
             <<"c","u","r","r","e","n","c","y">>}
        V1CurrencyWords ==
            {<<"p","r","i","c","e">>, <<"a","m","o","u","n","t">>,
             <<"b","a","l","a","n","c","e">>, <<"c","o","s","t">>, <<"f","e","e">>,
             <<"p","a","y","m","e","n","t">>, <<"s","a","l","a","r","y">>,
             <<"r","e","v","e","n","u","e">>}
        V1NumberTypes ==
            {<<"f","l","o","a","t">>, <<"d","o","u","b","l","e">>,
             <<"n","u","m","b","e","r">>}
        V1CurrencyCodes ==
            {<<"u","s","d">>, <<"e","u","r">>, <<"g","b","p">>}
        name == Lower(field.name)
        type_ == Lower(field.type)
    IN IF type_ \in V1CurrencyTypes THEN 95
       ELSE IF AnyIn(name, V1CurrencyWords) THEN 90
       ELSE IF type_ \in V1NumberTypes /\ AnyIn(name, V1CurrencyCodes) THEN 85
       ELSE 0

is_temporal(field) ==
    LET V1TemporalTypes ==
            {<<"t","i","m","e","s","t","a","m","p">>,
             <<"d","a","t","e","t","i","m","e">>, <<"d","a","t","e">>,
             <<"t","i","m","e">>}
        V1TemporalWords ==
            {<<"c","r","e","a","t","e","d">>, <<"u","p","d","a","t","e","d">>,
             <<"m","o","d","i","f","i","e","d">>, <<"d","e","l","e","t","e","d">>,
             <<"l","a","s","t","_">>, <<"n","e","x","t","_">>}
        name == Lower(field.name)
        type_ == Lower(field.type)
    IN IF type_ \in V1TemporalTypes THEN 95
       ELSE IF EndsWith(name, <<"_","a","t">>) \/ EndsWith(name, <<"_","o","n">>)
       THEN 90
       ELSE IF AnyIn(name, V1TemporalWords) THEN 85
       ELSE 0

is_premium(field) ==
    LET V1PremiumWords ==
            {<<"p","r","e","m","i","u","m">>, <<"p","r","o">>, <<"v","i","p">>,
             <<"g","o","l","d">>, <<"p","l","a","t","i","n","u","m">>,
             <<"e","l","i","t","e">>, <<"p","l","u","s">>}
        V1PremiumTiers ==
            {<<"p","r","e","m","i","u","m">>, <<"p","r","o">>, <<"g","o","l","d">>}
        name == Lower(field.name)
    IN IF AnyIn(name, V1PremiumWords) THEN 90
       ELSE IF /\ Contains(name, <<"t","i","e","r">>)
               /\ IsStr(field.value)
               /\ field.value.v \in V1PremiumTiers THEN 85
       ELSE 0

is_identifier(field) ==
    LET V1IdNames ==
            {<<"i","d">>, <<"u","i","d">>, <<"u","u","i","d">>, <<"g","u","i","d">>}
        name == Lower(field.name)
    IN IF name \in V1IdNames THEN 95
       ELSE IF EndsWith(name, <<"_","i","d">>) \/ EndsWith(name, <<"_","k","e","y">>)
       THEN 90
       ELSE IF \/ Contains(name, <<"i","d","e","n","t","i","f","i","e","r">>)
               \/ Contains(name, <<"r","e","f","e","r","e","n","c","e">>) THEN 85
       ELSE 0

is_status(field) ==
    LET V1StatusNames ==
            {<<"a","c","t","i","v","e">>, <<"e","n","a","b","l","e","d">>,
             <<"v","i","s","i","b","l","e">>, <<"p","u","b","l","i","s","h","e","d">>}
        V1KindNames ==
            {<<"t","y","p","e">>, <<"k","i","n","d">>,
             <<"c","a","t","e","g","o","r","y">>}
        name == Lower(field.name)
    IN IF \/ Contains(name, <<"s","t","a","t","u","s">>)
          \/ Contains(name, <<"s","t","a","t","e">>) THEN 95
       ELSE IF name \in V1StatusNames THEN 85
       ELSE IF field.type = <<"e","n","u","m">> /\ name \in V1KindNames THEN 80
       ELSE 0

is_percentage(field) ==
    LET name == Lower(field.name)
        value == field.value
    IN IF \/ Contains(name, <<"p","e","r","c","e","n","t">>)
          \/ Contains(name, <<"p","c","t">>)
          \/ EndsWith(name, <<"_","r","a","t","e">>) THEN 95
       ELSE IF \/ Contains(name, <<"r","a","t","i","o">>)
               \/ Contains(name, <<"f","a","c","t","o","r">>) THEN 85
       ELSE IF IsNumber(value) /\ 0 <= NumOf(value) /\ NumOf(value) <= 1 THEN 70
       ELSE 0

is_email(field) ==
    LET name == Lower(field.name)
        value == field.value
    IN IF Contains(name, <<"e","m","a","i","l">>) \/ Contains(name, <<"m","a","i","l">>)
       THEN 95
       ELSE IF /\ IsStr(value)
               /\ Contains(value.v, <<"@">>)
               /\ Contains(value.v, <<".">>) THEN 90
       ELSE 0

is_url(field) ==
    LET name == Lower(field.name)
        value == field.value
    IN IF \/ Contains(name, <<"u","r","l">>)
          \/ Contains(name, <<"l","i","n","k">>)
          \/ Contains(name, <<"w","e","b","s","i","t","e">>) THEN 95
       ELSE IF /\ IsStr(value)
               /\ \/ StartsWith(value.v, <<"h","t","t","p">>)
                  \/ StartsWith(value.v, <<"w","w","w">>) THEN 90
       ELSE 0

is_danger(field) ==
    LET V1DangerWords ==
            {<<"e","r","r","o","r">>, <<"f","a","i","l">>,
             <<"c","r","i","t","i","c","a","l">>, <<"s","e","v","e","r","e">>,
             <<"f","a","t","a","l">>, <<"e","m","e","r","g","e","n","c","y">>,
             <<"b","r","e","a","c","h">>}
        V1BlockedWords ==
            {<<"b","l","o","c","k","e","d">>, <<"b","a","n","n","e","d">>,
             <<"s","u","s","p","e","n","d","e","d">>}
        name == Lower(field.name)
    IN IF AnyIn(name, V1DangerWords) THEN 90
       ELSE IF /\ field.type = <<"b","o","o","l","e","a","n">>
               /\ Contains(name, <<"i","s","_">>)
               /\ AnyIn(name, V1BlockedWords) THEN 85
       ELSE 0

\* self.semantic_rules as __init__ builds it: semantic type and rule, in order
V1Rules ==
    <<"cancellation", "currency", "temporal", "premium", "identifier",
      "status", "percentage", "email", "url", "danger">>

\* rule_func(field) for the rule of a semantic type
V1Confidence(semantic_type, field) ==
    CASE semantic_type = "cancellation" -> is_cancellation(field)
      [] semantic_type = "currency" -> is_currency(field)
      [] semantic_type = "temporal" -> is_temporal(field)
      [] semantic_type = "premium" -> is_premium(field)
      [] semantic_type = "identifier" -> is_identifier(field)
      [] semantic_type = "status" -> is_status(field)
      [] semantic_type = "percentage" -> is_percentage(field)
      [] semantic_type = "email" -> is_email(field)
      [] semantic_type = "url" -> is_url(field)
      [] semantic_type = "danger" -> is_danger(field)

\* self.render_map as __init__ builds it: (semantic type, context) -> instruction
V1RenderMap ==
    <<"cancellation", "list">> :> "badge:danger" @@
    <<"cancellation", "detail">> :> "alert:warning" @@
    <<"cancellation", "form">> :> "toggle:danger" @@
    <<"cancellation", "timeline">> :> "event:critical" @@
    <<"currency", "list">> :> "text:currency-compact" @@
    <<"currency", "detail">> :> "text:currency-full" @@
    <<"currency", "form">> :> "input:currency" @@
    <<"currency", "timeline">> :> "chart:financial" @@
    <<"temporal", "list">> :> "text:relative-time" @@
    <<"temporal", "detail">> :> "text:absolute-datetime" @@
    <<"temporal", "form">> :> "input:datepicker" @@
    <<"temporal", "timeline">> :> "marker:timestamp" @@
    <<"premium", "list">> :> "badge:gold" @@
    <<"premium", "detail">> :> "card:elevated" @@
    <<"premium", "form">> :> "toggle:premium" @@
    <<"status", "list">> :> "badge:status" @@
    <<"status", "detail">> :> "card:status" @@
    <<"status", "form">> :> "select:status" @@
    <<"identifier", "list">> :> "text:monospace" @@
    <<"identifier", "detail">> :> "text:copyable" @@
    <<"identifier", "form">> :> "input:readonly" @@
    <<"percentage", "list">> :> "progress:compact" @@
    <<"percentage", "detail">> :> "progress:detailed" @@
    <<"percentage", "form">> :> "slider:percentage" @@
    <<"email", "list">> :> "link:email" @@
    <<"email", "detail">> :> "link:email-full" @@
    <<"email", "form">> :> "input:email" @@
    <<"url", "list">> :> "link:external" @@
    <<"url", "detail">> :> "link:preview" @@
    <<"url", "form">> :> "input:url" @@
    <<"danger", "list">> :> "badge:danger" @@
    <<"danger", "detail">> :> "alert:danger" @@
    <<"danger", "form">> :> "warning:inline"

\* a lookup that falls back to the entry the semantic type has for lists
V1RenderGetOfList(renders, render_key) ==
    IF render_key \in DOMAIN renders THEN renders[render_key]
    ELSE IF <<render_key[1], "list">> \in DOMAIN renders
    THEN renders[<<render_key[1], "list">>]
    ELSE "text:plain"

\* self.render_map.get(render_key, 'text:plain')
V1RenderGet(renders, render_key) ==
    IF render_key \in DOMAIN renders THEN renders[render_key]
    ELSE "text:plain"

\* the loop that finds the best match: a later rule wins only with a strictly
\* greater confidence
RECURSIVE V1Best(_, _, _)
V1Best(rules, field, best) ==
    IF rules = <<>> THEN best
    ELSE LET confidence == V1Confidence(Head(rules), field)
         IN V1Best(Tail(rules), field,
                   IF confidence > best.confidence
                   THEN [semantic |-> Head(rules), confidence |-> confidence]
                   ELSE best)

\* SemanticProtocol.analyze(field_name, field_type, field_value, context)
V1Analyze(field_name, field_type, field_value, context) ==
    LET field == V1Field(field_name, field_type, field_value)
        best == V1Best(V1Rules, field, [semantic |-> "default", confidence |-> 0])
        render_key == <<best.semantic, context>>
    IN [semantic_type |-> best.semantic,
        render_instruction |-> V1RenderGet(V1RenderMap, render_key),
        confidence |-> IF best.confidence > 0 THEN best.confidence ELSE 100,
        metadata |->
            [field |-> field_name, type |-> field_type, context |-> context,
             all_matches |->
                {<<V1Rules[i], V1Confidence(V1Rules[i], field)>> :
                    i \in {j \in DOMAIN V1Rules :
                              V1Confidence(V1Rules[j], field) > 0}}]]

\* isinstance(field, dict), for the items batch_analyze is given: a dict with
\* some of the keys name, type and value, or a string
IsDict(item) == "t" \notin DOMAIN item

\* the name batch_analyze analyzes an item under
BatchName(item) ==
    IF IsDict(item)
    THEN (IF "name" \in DOMAIN item THEN item.name
          ELSE <<"u","n","k","n","o","w","n">>)
    ELSE Str(item)

\* the type
BatchType(item) ==
    IF IsDict(item) /\ "type" \in DOMAIN item THEN item.type
    ELSE <<"s","t","r","i","n","g">>

\* the value
BatchValue(item) ==
    IF IsDict(item) /\ "value" \in DOMAIN item THEN item.value ELSE None

\* SemanticProtocol.batch_analyze(fields, context), from the dict results has
\* so far
RECURSIVE BatchLoop(_, _, _)
BatchLoop(results, fields, context) ==
    IF fields = <<>> THEN results
    ELSE LET field == Head(fields)
             name == BatchName(field)
         IN BatchLoop(DictSet(results,
                              [key |-> name,
                               value |-> V1Analyze(name, BatchType(field),
                                                   BatchValue(field), context)]),
                      Tail(fields), context)

BatchAnalyze(fields, context) == BatchLoop(<<>>, fields, context)

\* the items of the batches
V1Items ==
    {[name |-> <<"i","s","_","c","a","n","c","e","l","l","e","d">>,
      type |-> <<"b","o","o","l","e","a","n">>],
     [name |-> <<"a","m","o","u","n","t">>,
      type |-> <<"d","e","c","i","m","a","l">>, value |-> IntVal(5)],
     [name |-> <<"a","m","o","u","n","t">>],
     [type |-> <<"e","n","u","m">>],
     StrVal(<<"e","m","a","i","l","_","a","d","d","r","e","s","s">>)}

\* the longest batch
MaxBatch == 3

Batches == UNION {[1..n -> V1Items] : n \in 0..MaxBatch}

\* the contexts of the calls: two every semantic type has an entry for, one
\* only some have, and one no entry has
V1Contexts == {"list", "detail", "timeline", "display"}

\* batch_analyze(fields, context)
DoBatchAnalyze(fields, context) ==
    /\ call = Idle
    /\ call' = [op |-> "batch_analyze", fields |-> fields, context |-> context]
    /\ ret' = Returned(BatchAnalyze(fields, context))
    /\ UNCHANGED <<semantic_rules, custom_rules, render_map, pack>>

NextV1 ==
    \/ \E fields \in Batches, context \in V1Contexts :
          DoBatchAnalyze(fields, context)
    \/ Discard

SpecV1 == Init /\ [][NextV1]_vars

\* a dict as the mapping it is: equal dicts are equal mappings, whatever the
\* order of their keys
AsMapping(d) == [k \in Keys(d) |-> Lookup(d, k).value]

\* the result of analyzing an item of a batch on its own
AnalyzedAlone(item, context) ==
    V1Analyze(BatchName(item), BatchType(item), BatchValue(item), context)

Orders(n) ==
    {p \in [1..n -> 1..n] : \A i, j \in 1..n : i # j => p[i] # p[j]}

\* every processing order of the batch gives the mapping the call returned
SameInEveryOrder ==
    LET fields == call.fields
    IN \A p \in Orders(Len(fields)) :
          AsMapping(BatchAnalyze([i \in DOMAIN fields |-> fields[p[i]]],
                                 call.context))
              = AsMapping(ret.value)

\* the mapping has the names of the batch as its keys
MapsTheNames ==
    Keys(ret.value) = {BatchName(call.fields[i]) : i \in DOMAIN call.fields}

\* C16, as claimed: batch_analyze returns a mapping from field name to the
\* result of analyzing that field on its own, and the mapping is the same for
\* every processing order (every permutation) of the input sequence.
BatchOrderIrrelevant ==
    call.op = "batch_analyze" =>
        /\ MapsTheNames
        /\ \A i \in DOMAIN call.fields :
              AsMapping(ret.value)[BatchName(call.fields[i])]
                  = AnalyzedAlone(call.fields[i], call.context)
        /\ SameInEveryOrder

\* no two items of the batch have the same name
DistinctNames ==
    \A i, j \in DOMAIN call.fields :
        i # j => BatchName(call.fields[i]) # BatchName(call.fields[j])

\* C16, amended: batch_analyze returns a mapping from field name to the
\* result of analyzing on its own the last field of the input that has this
\* name; when the names of the input fields are distinct, that is every field's
\* own result and the mapping is the same for every processing order.
BatchLastOfNameWins ==
    call.op = "batch_analyze" =>
        /\ MapsTheNames
        /\ \A i \in DOMAIN call.fields :
              (\A j \in DOMAIN call.fields :
                  j > i => BatchName(call.fields[j]) # BatchName(call.fields[i])) =>
                 AsMapping(ret.value)[BatchName(call.fields[i])]
                     = AnalyzedAlone(call.fields[i], call.context)
        /\ DistinctNames => SameInEveryOrder

\* a batch of three fields with distinct names and distinct results
BatchWitness ==
    /\ call.op = "batch_analyze"
    /\ Len(call.fields) = 3
    /\ DistinctNames
    /\ Cardinality({AnalyzedAlone(call.fields[i], call.context).semantic_type :
                       i \in DOMAIN call.fields}) = 3
    /\ Len(ret.value) = 3

\* the directive a result carries is the one of its pair (semantic type,
\* context), and the generic default when the pair has no entry
LooksUpThePair(result, context) ==
    LET render_key == <<result.semantic_type, context>>
    IN /\ render_key \in DOMAIN V1RenderMap =>
              result.render_instruction = V1RenderMap[render_key]
       /\ render_key \notin DOMAIN V1RenderMap =>
              result.render_instruction = "text:plain"
       /\ result.metadata.all_matches = {} <=> result.semantic_type = "default"
       /\ result.semantic_type = "default" =>
              result.render_instruction = "text:plain"

\* C21: context-aware render lookup.  Every result the first engine returns
\* carries the directive registered for the pair (winning semantic type,
\* context); when the pair has no entry, because the context is unknown for
\* that type or because no semantic type matched the field at all, the result
\* carries the one generic default directive, and the call returns instead of
\* raising.
ContextAwareLookup ==
    call.op = "batch_analyze" =>
        /\ ret.outcome = "returned"
        /\ \A i \in DOMAIN ret.value :
              LooksUpThePair(ret.value[i].value, call.context)

\* one batch in the context timeline gives a directive of the map (amount is a
\* currency and has an entry), the default for a matched type without an entry
\* for this context (email_address) and the default for a field nothing
\* matches (unknown)
ContextAwareLookupWitness ==
    /\ call.op = "batch_analyze"
    /\ call.context = "timeline"
    /\ ret.outcome = "returned"
    /\ \E i, j, k \in DOMAIN ret.value :
          /\ ret.value[i].value.semantic_type = "currency"
          /\ ret.value[i].value.render_instruction = "chart:financial"
          /\ ret.value[j].value.semantic_type = "email"
          /\ ret.value[j].value.render_instruction = "text:plain"
          /\ ret.value[k].value.semantic_type = "default"
          /\ ret.value[k].value.render_instruction = "text:plain"

\* the calls that only read the registries
ReadOnlyOps ==
    {"analyze", "identify", "render", "analyze_multi", "batch_analyze"}

\* C22: the registries change through registration only.  No analyze,
\* identify, render or analyze_multi call changes the builtin rules, the
\* custom rules or the render registry, whether it returns or raises; only
\* register_rule changes the rules, and it changes the entry of its own key
\* alone and never the builtin table; only register_render changes the render
\* registry; and the priority a key has changes only in a register_rule call
\* for this key.
RegistriesChangeByRegistration ==
    [][/\ call'.op \in ReadOnlyOps =>
             /\ semantic_rules' = semantic_rules
             /\ custom_rules' = custom_rules
             /\ render_map' = render_map
       /\ semantic_rules' = semantic_rules
       /\ custom_rules' # custom_rules => call'.op = "register_rule"
       /\ render_map' # render_map => call'.op = "register_render"
       /\ call'.op = "register_rule" =>
             \A k \in Keys(custom_rules) \ {call'.name} :
                /\ k \in Keys(custom_rules')
                /\ Lookup(custom_rules', k) = Lookup(custom_rules, k)
       /\ \A k \in Keys(custom_rules) \cap Keys(custom_rules') :
             Lookup(custom_rules', k).priority # Lookup(custom_rules, k).priority
                => call'.op = "register_rule" /\ call'.name = k]_vars

\* a call that only reads has ended, by raising, on registries that
\* registrations have changed: both registered keys are still there, the one
\* with the priority its second registration gave it
RegistriesChangeByRegistrationWitness ==
    /\ call.op \in ReadOnlyOps
    /\ ret = Raised
    /\ Keys(custom_rules) = {"_is_api_key", "_is_email"}
    /\ Lookup(custom_rules, "_is_api_key").priority = 100
    /\ call.field = EmailField
    /\ render_map # BuiltinRenders
    /\ semantic_rules = BuiltinRules

\* the ranked list of the last analyze call, empty when the result carries none
RankedOrEmpty == IF HasMetadata THEN Ranked ELSE <<>>

\* the key stands in the ranked list of the last call exactly when this rule's
\* detector reaches the threshold, once, with this rule's confidence and
\* priority
ScoredBy(key, rule) ==
    LET confidence == Call(rule.detector, Results(call.field))
        entries == SelectSeq(RankedOrEmpty, LAMBDA m : m.semantic_type = key)
    IN /\ Len(entries) <= 1
       /\ Len(entries) = 1 <=> confidence >= call.threshold
       /\ Len(entries) = 1 =>
             /\ entries[1].confidence = confidence
             /\ entries[1].priority = rule.priority

\* C23: shadowing of builtins.  Once register_rule was called with the key of
\* a builtin rule, an analyze call that returns scores this key with the
\* custom detector and the custom priority only, so that the key stands at most
\* once in the match list; the builtin rule table is as __init__ built it, and
\* every builtin rule whose key was not registered is scored with its own
\* detector and priority.
ShadowingOfBuiltins ==
    /\ semantic_rules = BuiltinRules
    /\ AnalyzeReturned =>
          /\ \A k \in Keys(semantic_rules) \cap Keys(custom_rules) :
                ScoredBy(k, Lookup(custom_rules, k))
          /\ \A k \in Keys(semantic_rules) \ Keys(custom_rules) :
                ScoredBy(k, Lookup(semantic_rules, k))

\* analyze of the email field returned after _is_email was registered with a
\* detector that returns 150: the list holds _is_email with 150 and the
\* registered priority, where the builtin rule reports another confidence
\* that reaches the threshold too, at another priority
ShadowingOfBuiltinsWitness ==
    /\ HasMetadata
    /\ call.field = EmailField
    /\ "_is_email" \in Keys(custom_rules)
    /\ Lookup(custom_rules, "_is_email").detector = Returns(150)
    /\ Call(Lookup(semantic_rules, "_is_email").detector, Results(call.field))
          >= call.threshold
    /\ Lookup(semantic_rules, "_is_email").priority # DefaultPriority
    /\ \E k \in DOMAIN Ranked :
          /\ Ranked[k].semantic_type = "_is_email"
          /\ Ranked[k].confidence = 150
          /\ Ranked[k].priority = DefaultPriority

=============================================================================
